---- MODULE Spec2Model ----
(***************************************************************************)
(* count_subgraphs of bip_counter.py: exact counts of eight small motifs   *)
(* of a bipartite user-object graph, derived from two sparse pair          *)
(* co-occurrence matrices.  Users (U) are the left class, objects (O) the  *)
(* right class.  One call is a sequence of program steps; the caller may   *)
(* then add an edge to its graph and call again on a fresh copy.           *)
(***************************************************************************)
EXTENDS Integers, Sequences, FiniteSets, TLC

\* Largest number of nodes (users plus objects) of an input graph.
MaxNodes == 6
\* Largest number of nodes of a graph the caller grows edge by edge.
MaxGrowNodes == 5

VARIABLES
    G,            \* the caller's graph: [nU, nO, E, lab], E a set of
                  \* <<user, object>>, lab the nodes carrying a class label
    mode,         \* "lists": nodes_U/nodes_O passed; "labels": both None
    B,            \* the graph object handed to the call: [nodes, edges, attr]
    pc,           \* position in count_subgraphs
    num_U, num_O, \* line 36-37
    k_U, k_O,     \* degree dictionaries, line 45
    u, o,         \* loop indices of lines 50 and 97
    row,          \* the row/col lists, as one sequence of <<row, col>>
    live,         \* the matrix names that are bound (not yet built, or del'ed,
                  \* names are out of it and hold the empty matrix)
    pairs_O,      \* Right-Right co-occurrence matrix (objects)
    matrix_numU,  \* line 61
    pairsO_ksum,  \* line 63
    pairs_U,      \* Left-Left co-occurrence matrix (users)
    subgraphs,    \* the 8-slot result vector
    usr,          \* what B.neighbors(o) returned, per object read (line 100)
    prev0         \* slot 0 of the caller's previous call, -1 when none

vars == <<G, mode, B, pc, num_U, num_O, k_U, k_O, u, o, row, live, pairs_O,
          matrix_numU, pairsO_ksum, pairs_U, subgraphs, usr, prev0>>

----------------------------------------------------------------------------
(* Arithmetic helpers *)

RECURSIVE SumOver(_, _)
\* sum of f[x] for x in S
SumOver(f, S) ==
    IF S = {} THEN 0
    ELSE LET x == CHOOSE y \in S : TRUE IN f[x] + SumOver(f, S \ {x})

Choose2(n) == (n * (n - 1)) \div 2
Choose3(n) == (n * (n - 1) * (n - 2)) \div 6

----------------------------------------------------------------------------
(* The networkx graph object *)

UNode(i) == <<"u", i>>
ONode(j) == <<"o", j>>
UNodes(g) == {UNode(i) : i \in 1..g.nU}
ONodes(g) == {ONode(j) : j \in 1..g.nO}

\* B.neighbors(n)
Neighbors(Bg, n) == {m \in Bg.nodes : {n, m} \in Bg.edges}

\* remove_node that also drops the users the node was tied to
RemoveNode_WithNeighbors(Bg, n) ==
    LET gone == {n} \cup Neighbors(Bg, n)
    IN [nodes |-> Bg.nodes \ gone,
        edges |-> {e \in Bg.edges : e \cap gone = {}},
        attr  |-> [m \in Bg.nodes \ gone |-> Bg.attr[m]]]

\* B.remove_node(n): the node and its incident edges go
RemoveNode(Bg, n) ==
    [nodes |-> Bg.nodes \ {n},
     edges |-> {e \in Bg.edges : n \notin e},
     attr  |-> [m \in Bg.nodes \ {n} |-> Bg.attr[m]]]

\* B.remove_nodes_from(B.nodes())
ClearGraph(Bg) ==
    [nodes |-> {}, edges |-> {}, attr |-> [m \in {} |-> "missing"]]

\* nx.set_node_attributes(B, 'bipartite', {n: lab for n in ns})
SetNodeAttributes(Bg, ns, lab) ==
    [Bg EXCEPT !.attr = [m \in Bg.nodes |-> IF m \in ns THEN lab ELSE Bg.attr[m]]]

\* position of a node in nodes_U + nodes_O: users first, then objects
DenseIndex(n, nu) == IF n[1] = "u" THEN n[2] - 1 ELSE nu + n[2] - 1

\* nx.relabel_nodes(B, mapping, copy=False)
RelabelNodes(Bg, nu) ==
    LET old(k) == CHOOSE n \in Bg.nodes : DenseIndex(n, nu) = k
        new    == {DenseIndex(n, nu) : n \in Bg.nodes}
    IN [nodes |-> new,
        edges |-> {{DenseIndex(n, nu) : n \in e} : e \in Bg.edges},
        attr  |-> [k \in new |-> Bg.attr[old(k)]]]

\* nx.bipartite.degrees(B, nodes): (degrees of the others, degrees of nodes)
Degrees(Bg, bottom) ==
    <<[n \in Bg.nodes \ bottom |-> Cardinality(Neighbors(Bg, n))],
      [n \in bottom |-> Cardinality(Neighbors(Bg, n))]>>

\* the graph object the caller builds from its edge table
FreshCopy(g) ==
    [nodes |-> UNodes(g) \cup ONodes(g),
     edges |-> {{UNode(e[1]), ONode(e[2])} : e \in g.E},
     attr  |-> [n \in UNodes(g) \cup ONodes(g) |->
                   IF n \in g.lab THEN n[1] ELSE "missing"]]

----------------------------------------------------------------------------
(* Lists *)

RECURSIVE SortedList(_)
\* list.sort() of a list of distinct integers, given as their set
SortedList(S) ==
    IF S = {} THEN <<>>
    ELSE LET m == CHOOSE x \in S : \A y \in S : x <= y
         IN <<m>> \o SortedList(S \ {m})

RECURSIVE Combinations(_)
\* list(it.combinations(s, 2)): pairs in lexicographic position order
Combinations(s) ==
    IF Len(s) < 2 THEN <<>>
    ELSE [i \in 1..(Len(s) - 1) |-> <<s[1], s[i + 1]>>] \o Combinations(Tail(s))

----------------------------------------------------------------------------
(* scipy.sparse matrices: a function from the stored positions to values *)

Empty == [p \in {} |-> 0]

\* ssp.coo_matrix((data, (row, col))).tocsr(): duplicates are summed
CooMatrix(data, pos) ==
    [p \in {pos[i] : i \in 1..Len(pos)} |->
        SumOver(data, {i \in 1..Len(pos) : pos[i] = p})]

Ones(n) == [i \in 1..n |-> 1]

At(A, p) == IF p \in DOMAIN A THEN A[p] ELSE 0

\* A.nonzero(), in row-major order
NonZero(A) == {p \in DOMAIN A : A[p] # 0}

RECURSIVE PosList(_)
PosList(S) ==
    IF S = {} THEN <<>>
    ELSE LET m == CHOOSE x \in S : \A y \in S :
                     x[1] < y[1] \/ (x[1] = y[1] /\ x[2] <= y[2])
         IN <<m>> \o PosList(S \ {m})

MSub(A, C) == [p \in DOMAIN A \cup DOMAIN C |-> At(A, p) - At(C, p)]
MMul(A, C) == [p \in DOMAIN A \cap DOMAIN C |-> A[p] * C[p]]
MScale(c, A) == [p \in DOMAIN A |-> c * A[p]]
\* A / c on values that are multiples of c
MDiv(A, c) == [p \in DOMAIN A |-> A[p] \div c]
MEq(A, v) == [p \in {q \in DOMAIN A : A[q] = v} |-> 1]
MGt(A, v) == [p \in {q \in DOMAIN A : A[q] > v} |-> 1]
MSum(A) == SumOver(A, DOMAIN A)

----------------------------------------------------------------------------
(* Initial states: any bipartite graph within the bound *)

GraphsUpTo(n) ==
    UNION {
      UNION {
        UNION {
          {[nU |-> a, nO |-> b, E |-> e, lab |-> l] :
              l \in {{UNode(i) : i \in 1..a} \cup {ONode(j) : j \in 1..b},
                     {UNode(i) : i \in 1..a},
                     {}}}
          : e \in SUBSET ((1..a) \X (1..b))}
        : b \in 0..(n - a)}
      : a \in 0..n}

Zeros == [s \in 0..7 |-> 0]

\* the state in which count_subgraphs is entered
Entry ==
    /\ B = FreshCopy(G)
    /\ pc = "start"
    /\ num_U = 0 /\ num_O = 0
    /\ k_U = Empty /\ k_O = Empty
    /\ u = 0 /\ o = 0
    /\ row = <<>>
    /\ live = {}
    /\ pairs_O = Empty /\ matrix_numU = Empty /\ pairsO_ksum = Empty
    /\ pairs_U = Empty
    /\ subgraphs = Zeros
    /\ usr = Empty
    /\ prev0 = -1

\* line 31: when the lists are given, the nodes are not labelled
Inputs(n) ==
    /\ G \in GraphsUpTo(n)
    /\ mode \in {"lists", "labels"}
    /\ mode = "lists" => G.lab = {}

Init == Inputs(MaxNodes) /\ Entry

InitGrow == Inputs(MaxGrowNodes) /\ Entry

----------------------------------------------------------------------------
(* count_subgraphs, step by step *)

\* a lookup that tolerates the missing attribute, as d.get('bipartite') would
LabelLookup_Tolerant(Bg) == FALSE

\* lines 28-30: the node lists read from the 'bipartite' labels.  d['bipartite']
\* raises KeyError at the first node that has no such attribute.
LabelLookupFails(Bg) == \E n \in Bg.nodes : Bg.attr[n] = "missing"

\* lines 25-45: partition, labelling, dense relabelling, degrees
Normalize ==
    /\ pc = "start"
    /\ IF mode = "labels" /\ LabelLookupFails(B)
       THEN /\ pc' = "KeyError"
            /\ UNCHANGED <<B, num_U, num_O, k_U, k_O, u, row>>
       ELSE LET nodes_U == IF mode = "labels"
                           THEN {n \in B.nodes : B.attr[n] = "u"}
                           ELSE UNodes(G)
                nodes_O == IF mode = "labels"
                           THEN {n \in B.nodes : B.attr[n] = "o"}
                           ELSE ONodes(G)
                B1 == IF mode = "labels" THEN B
                      ELSE SetNodeAttributes(
                               SetNodeAttributes(B, nodes_U, "u"), nodes_O, "o")
                nu == Cardinality(nodes_U)
                no == Cardinality(nodes_O)
                B2 == RelabelNodes(B1, nu)
                k  == Degrees(B2, nu..(nu + no - 1))
            IN /\ num_U' = nu
               /\ num_O' = no
               /\ B' = B2
               /\ k_U' = k[1]
               /\ k_O' = k[2]
               /\ u' = 0
               /\ row' = <<>>
               /\ pc' = "loopU"
    /\ UNCHANGED <<G, mode, o, live, pairs_O, matrix_numU, pairsO_ksum, pairs_U,
                   subgraphs, usr, prev0>>

\* the loop body without its degree test
HasPairs_NoGuard(k) == TRUE

\* lines 51 and 99: only a node of degree >= 2 contributes pairs
HasPairs(k) == k >= 2

\* lines 54 and 102: o1,o2 = zip(*pairs) raises ValueError when there is no pair
UnpackFails(c) == c = <<>>

\* lines 50-56, one iteration: the object pairs of user u
LoopU ==
    /\ pc = "loopU"
    /\ u < num_U
    /\ LET c == Combinations(SortedList(Neighbors(B, u)))
       IN IF HasPairs(k_U[u])
          THEN IF UnpackFails(c)
               THEN pc' = "ValueError" /\ UNCHANGED <<row, u>>
               ELSE row' = row \o c /\ u' = u + 1 /\ UNCHANGED pc
          ELSE u' = u + 1 /\ UNCHANGED <<row, pc>>
    /\ UNCHANGED <<G, mode, B, num_U, num_O, k_U, k_O, o, live, pairs_O,
                   matrix_numU, pairsO_ksum, pairs_U, subgraphs, usr, prev0>>

\* line 57: the Right-Right matrix
BuildPairsO ==
    /\ pc = "loopU"
    /\ u = num_U
    /\ pairs_O' = CooMatrix(Ones(Len(row)), row)
    /\ live' = live \cup {"pairs_O"}
    /\ pc' = "deriveO"
    /\ UNCHANGED <<G, mode, B, num_U, num_O, k_U, k_O, u, o, row,
                   matrix_numU, pairsO_ksum, pairs_U, subgraphs, usr, prev0>>

\* the degree sum with the column's degree left out
KsumData_RowOnly(pos, k) == [i \in 1..Len(pos) |-> k[pos[i][1]]]

\* lines 62, 71 and 112
KsumData(pos, k) == [i \in 1..Len(pos) |-> k[pos[i][1]] + k[pos[i][2]]]
\* line 61
NumUData(pos, nu) == [i \in 1..Len(pos) |-> nu]
\* lines 81-82
MinusData(A, pos, c) == [i \in 1..Len(pos) |-> A[pos[i]] - c]

\* the sum taken over the p = 1 entries only
Slot0_Singles(P) == MSum(MEq(P, 1))

\* line 66
Slot0(P) == MSum(P)

\* the users tied to r1 or r2 counted without the inclusion-exclusion term
Slot2_NoOverlap(P, numU, ksum) == MSum(MSub(numU, ksum))

\* line 67
Slot2(P, numU, ksum) == MSum(MSub(numU, MSub(ksum, P)))
\* the degree sums taken over every stored pair, not only those with p = 1
Slot3_AllPairs(P, k) ==
    LET pos == PosList(NonZero(P))
    IN MSum(MSub(CooMatrix(KsumData(pos, k), pos), MScale(2, P)))

\* lines 70-76
Slot3(P, k) ==
    LET pos == PosList(NonZero(MEq(P, 1)))
        pairs_O1 == MEq(P, 1)
        pairs_O1_ksum == CooMatrix(KsumData(pos, k), pos)
    IN MSum(MSub(pairs_O1_ksum, MScale(2, pairs_O1)))
\* p(p-1) without the division by 2
Squares_NoHalf(P) ==
    LET pos == PosList(NonZero(MGt(P, 1)))
        m1  == CooMatrix(MinusData(P, pos, 1), pos)
    IN MMul(P, m1)

\* lines 80-84, 88
Squares(P) ==
    LET pos == PosList(NonZero(MGt(P, 1)))
        m1  == CooMatrix(MinusData(P, pos, 1), pos)
    IN MDiv(MMul(P, m1), 2)
\* line 89
Slot4(P) == MSum(Squares(P))
\* line 90
Slot5(P, ksum) == MSum(MMul(Squares(P), MSub(ksum, MScale(2, P))))
\* lines 80-85, 91
Slot7(P) ==
    LET pos == PosList(NonZero(MGt(P, 1)))
        m1  == CooMatrix(MinusData(P, pos, 1), pos)
        m2  == CooMatrix(MinusData(P, pos, 2), pos)
    IN MSum(MDiv(MMul(MMul(P, m1), m2), 6))

\* lines 59-91: slots 0, 2, 3, 4, 5 and 7 from the Right-Right matrix
DeriveO ==
    /\ pc = "deriveO"
    /\ LET pos  == PosList(NonZero(pairs_O))
           numU == CooMatrix(NumUData(pos, num_U), pos)
           ksum == CooMatrix(KsumData(pos, k_O), pos)
       IN /\ matrix_numU' = numU
          /\ pairsO_ksum' = ksum
          /\ live' = live \cup {"matrix_numU", "pairsO_ksum"}
          /\ subgraphs' = [subgraphs EXCEPT
                             ![0] = Slot0(pairs_O),
                             ![2] = Slot2(pairs_O, numU, ksum),
                             ![3] = Slot3(pairs_O, k_O),
                             ![4] = Slot4(pairs_O),
                             ![5] = Slot5(pairs_O, ksum),
                             ![7] = Slot7(pairs_O)]
    /\ pc' = "releaseO"
    /\ UNCHANGED <<G, mode, B, num_U, num_O, k_U, k_O, u, o, row, pairs_O,
                   pairs_U, usr, prev0>>

\* the same step with pairs_O left out of the del statement
ReleaseO_Keep ==
    /\ pc = "releaseO"
    /\ row' = <<>>
    /\ o' = num_U
    /\ pc' = "loopO"
    /\ UNCHANGED <<G, mode, B, num_U, num_O, k_U, k_O, u, live, pairs_O,
                   matrix_numU, pairsO_ksum, pairs_U, subgraphs, usr, prev0>>

\* lines 92-97: del pairs_O, fresh row/col lists, the object loop starts
ReleaseO ==
    /\ pc = "releaseO"
    /\ pairs_O' = Empty
    /\ live' = live \ {"pairs_O"}
    /\ row' = <<>>
    /\ o' = num_U
    /\ pc' = "loopO"
    /\ UNCHANGED <<G, mode, B, num_U, num_O, k_U, k_O, u, matrix_numU,
                   pairsO_ksum, pairs_U, subgraphs, usr, prev0>>

\* lines 97-105, one iteration: the user pairs of object o, then o is removed
LoopO ==
    /\ pc = "loopO"
    /\ o < num_U + num_O
    /\ LET c == Combinations(SortedList(Neighbors(B, o)))
       IN IF HasPairs(k_O[o])
          THEN IF UnpackFails(c)
               THEN /\ pc' = "ValueError"
                    /\ usr' = [x \in DOMAIN usr \cup {o} |->
                                  IF x = o THEN Neighbors(B, o) ELSE usr[x]]
                    /\ UNCHANGED <<row, o, B>>
               ELSE /\ row' = row \o c
                    /\ usr' = [x \in DOMAIN usr \cup {o} |->
                                  IF x = o THEN Neighbors(B, o) ELSE usr[x]]
                    /\ B' = RemoveNode(B, o)
                    /\ o' = o + 1
                    /\ UNCHANGED pc
          ELSE /\ B' = RemoveNode(B, o)
               /\ o' = o + 1
               /\ UNCHANGED <<row, usr, pc>>
    /\ UNCHANGED <<G, mode, num_U, num_O, k_U, k_O, u, live, pairs_O,
                   matrix_numU, pairsO_ksum, pairs_U, subgraphs, prev0>>

\* lines 106-108: the graph is cleared, then the Left-Left matrix is built
BuildPairsU ==
    /\ pc = "loopO"
    /\ o = num_U + num_O
    /\ B' = ClearGraph(B)
    /\ pairs_U' = CooMatrix(Ones(Len(row)), row)
    /\ live' = live \cup {"pairs_U"}
    /\ pc' = "deriveU"
    /\ UNCHANGED <<G, mode, num_U, num_O, k_U, k_O, u, o, row, pairs_O,
                   matrix_numU, pairsO_ksum, subgraphs, usr, prev0>>

\* line 119
Slot1(Q) == MSum(Q)
\* lines 111-116, 122
Slot6(Q, k) ==
    LET pos  == PosList(NonZero(MGt(Q, 1)))
        ksum == CooMatrix(KsumData(pos, k), pos)
        m1   == CooMatrix(MinusData(Q, pos, 1), pos)
    IN MSum(MMul(MDiv(MMul(Q, m1), 2), MSub(ksum, MScale(2, Q))))

\* lines 110-124: slots 1 and 6 from the Left-Left matrix, and the return
DeriveU ==
    /\ pc = "deriveU"
    /\ subgraphs' = [subgraphs EXCEPT ![1] = Slot1(pairs_U),
                                      ![6] = Slot6(pairs_U, k_U)]
    /\ pc' = "done"
    /\ UNCHANGED <<G, mode, B, num_U, num_O, k_U, k_O, u, o, row, live, pairs_O,
                   matrix_numU, pairsO_ksum, pairs_U, usr, prev0>>

\* The caller adds one user-object edge to its graph and counts again on a
\* fresh copy, remembering slot 0 of the call that just returned.
AddEdge ==
    /\ pc = "done"
    /\ \E e \in ((1..G.nU) \X (1..G.nO)) \ G.E :
         /\ G' = [G EXCEPT !.E = G.E \cup {e}]
         /\ B' = FreshCopy(G')
    /\ prev0' = subgraphs[0]
    /\ pc' = "start"
    /\ num_U' = 0 /\ num_O' = 0
    /\ k_U' = Empty /\ k_O' = Empty
    /\ u' = 0 /\ o' = 0
    /\ row' = <<>>
    /\ live' = {}
    /\ pairs_O' = Empty /\ matrix_numU' = Empty /\ pairsO_ksum' = Empty
    /\ pairs_U' = Empty
    /\ subgraphs' = Zeros
    /\ usr' = Empty
    /\ UNCHANGED mode

Next ==
    \/ Normalize
    \/ LoopU
    \/ BuildPairsO
    \/ DeriveO
    \/ ReleaseO
    \/ LoopO
    \/ BuildPairsU
    \/ DeriveU

Spec == Init /\ [][Next]_vars

\* the same call, repeated by a caller that grows its graph
NextGrow ==
    \/ Normalize
    \/ LoopU
    \/ BuildPairsO
    \/ DeriveO
    \/ ReleaseO
    \/ LoopO
    \/ BuildPairsU
    \/ DeriveU
    \/ AddEdge

SpecGrow == InitGrow /\ [][NextGrow]_vars

----------------------------------------------------------------------------
(* Reference quantities of the caller's graph G, users 1..nU, objects 1..nO *)

UsersOf(j) == {i \in 1..G.nU : <<i, j>> \in G.E}
ObjectsOf(i) == {j \in 1..G.nO : <<i, j>> \in G.E}
KO(j) == Cardinality(UsersOf(j))
KU(i) == Cardinality(ObjectsOf(i))
\* co-occurrence counts
P(r1, r2) == Cardinality(UsersOf(r1) \cap UsersOf(r2))
Q(l1, l2) == Cardinality(ObjectsOf(l1) \cap ObjectsOf(l2))
OPairs == {p \in (1..G.nO) \X (1..G.nO) : p[1] < p[2] /\ P(p[1], p[2]) # 0}
UPairs == {p \in (1..G.nU) \X (1..G.nU) : p[1] < p[2] /\ Q(p[1], p[2]) # 0}

Returned == pc = "done"

\* Brute force: the node subsets of G whose induced subgraph is the motif.
InducedEdges(S) == {e \in G.E : UNode(e[1]) \in S /\ ONode(e[2]) \in S}
Shape(S, nu, no, ne) ==
    /\ Cardinality(S \cap UNodes(G)) = nu
    /\ Cardinality(S \cap ONodes(G)) = no
    /\ Cardinality(InducedEdges(S)) = ne
\* the users of S adjacent, inside S, to exactly d nodes
UsersOfDegree(S, d) ==
    {n \in S \cap UNodes(G) :
        Cardinality({e \in InducedEdges(S) : e[1] = n[2]}) = d}

IsMotif(s, S) ==
    CASE s = 0 -> Shape(S, 1, 2, 2)                     \* o-u-o
      [] s = 1 -> Shape(S, 2, 1, 2)                     \* u-o-u
      [] s = 2 -> /\ Shape(S, 2, 2, 2)                  \* o-u-o and a user
                  /\ Cardinality(UsersOfDegree(S, 2)) = 1   \* tied to neither
      [] s = 3 -> Shape(S, 2, 2, 3)                     \* path of length 3
      [] s = 4 -> Shape(S, 2, 2, 4)                     \* square
      [] s = 5 -> Shape(S, 3, 2, 5)                     \* square + u
      [] s = 6 -> Shape(S, 2, 3, 5)                     \* square + o
      [] s = 7 -> Shape(S, 3, 2, 6)                     \* 3 users, same 2 objects

BruteForce(s) ==
    Cardinality({S \in SUBSET (UNodes(G) \cup ONodes(G)) : IsMotif(s, S)})

\* C1: when count_subgraphs returns, each of the 8 slots equals the number
\* of node subsets of the graph that induce that slot's motif.
C1_Exactness == Returned => \A s \in 0..7 : subgraphs[s] = BruteForce(s)

\* the slots the formulas of lines 66-122 do count exactly
ExactSlots == Returned => \A s \in {0, 1, 4, 5, 6, 7} : subgraphs[s] = BruteForce(s)

\* the closed formulas over the co-occurrence counts and the degrees
Formula(s) ==
    LET ksumO(p) == KO(p[1]) + KO(p[2])
        ksumU(p) == KU(p[1]) + KU(p[2])
        p0 == [p \in OPairs |-> P(p[1], p[2])]
        f2 == [p \in OPairs |-> G.nU - (ksumO(p) - P(p[1], p[2]))]
        f3 == [p \in {q \in OPairs : P(q[1], q[2]) = 1} |-> ksumO(p) - 2]
        f4 == [p \in OPairs |-> Choose2(P(p[1], p[2]))]
        f5 == [p \in OPairs |->
                  Choose2(P(p[1], p[2])) * (ksumO(p) - 2 * P(p[1], p[2]))]
        f7 == [p \in OPairs |-> Choose3(P(p[1], p[2]))]
        q1 == [p \in UPairs |-> Q(p[1], p[2])]
        f6 == [p \in UPairs |->
                  Choose2(Q(p[1], p[2])) * (ksumU(p) - 2 * Q(p[1], p[2]))]
    IN CASE s = 0 -> SumOver(p0, OPairs)
         [] s = 1 -> SumOver(q1, UPairs)
         [] s = 2 -> SumOver(f2, OPairs)
         [] s = 3 -> SumOver(f3, DOMAIN f3)
         [] s = 4 -> SumOver(f4, OPairs)
         [] s = 5 -> SumOver(f5, OPairs)
         [] s = 6 -> SumOver(f6, UPairs)
         [] s = 7 -> SumOver(f7, OPairs)

\* C2: the returned vector equals, slot by slot, the closed formulas over
\* the pair co-occurrence counts P, Q and the degrees K of the input graph.
C2_Formulas == Returned => \A s \in 0..7 : subgraphs[s] = Formula(s)

\* a returned vector with the p = 1 and the p >= 2 terms both present
C2_Witness ==
    /\ Returned
    /\ subgraphs[3] > 0 /\ subgraphs[5] > 0 /\ subgraphs[6] > 0

----------------------------------------------------------------------------
AllNodes == UNodes(G) \cup ONodes(G)
NoLabels == mode = "labels" /\ G.lab = {}
PartitionAvailable == mode = "lists" \/ G.lab = AllNodes
Failed == pc \in {"KeyError", "ValueError"}

\* C3 as stated: called without lists on a graph whose nodes carry no class
\* label, the call aborts with the missing-partition error and returns no vector.
C3_AlwaysAborts == (NoLabels /\ pc # "start") => pc = "KeyError"

\* C3 amended: on such a graph with at least one node the call aborts at the
\* label lookup, before any slot is written; on the empty graph it returns
\* the all-zero vector.
C3_AbortsWhenNodes ==
    /\ (NoLabels /\ AllNodes # {} /\ pc # "start") =>
          (pc = "KeyError" /\ subgraphs = Zeros /\ live = {})
    /\ (NoLabels /\ AllNodes = {} /\ pc # "start") => ~Failed
    /\ (NoLabels /\ AllNodes = {} /\ Returned) => subgraphs = Zeros

C3_Witness == pc = "KeyError" /\ NoLabels /\ G.E # {}

LeftLow == \A i \in 1..G.nU : KU(i) < 2
RightLow == \A j \in 1..G.nO : KO(j) < 2

\* C4: with the partition available, a call on a graph where one side has no
\* node of degree >= 2 (the empty graph included) raises nothing and no loop
\* runs past its range; in the returned vector slots 0, 2, 3, 4, 5, 7 are 0 when no user has degree >= 2,
\* slots 1 and 6 are 0 when no object has degree >= 2.
C4_LowDegrees ==
    (PartitionAvailable /\ (LeftLow \/ RightLow)) =>
        /\ ~Failed
        /\ pc = "loopU" => u <= num_U
        /\ pc = "loopO" => o <= num_U + num_O
        /\ (Returned /\ LeftLow) => \A s \in {0, 2, 3, 4, 5, 7} : subgraphs[s] = 0
        /\ (Returned /\ RightLow) => \A s \in {1, 6} : subgraphs[s] = 0
        /\ (Returned /\ LeftLow /\ RightLow) => subgraphs = Zeros

C4_Witness ==
    /\ Returned /\ LeftLow /\ ~RightLow
    /\ \E i \in 1..G.nU : KU(i) = 1
    /\ \E i \in 1..G.nU : KU(i) = 0

\* one object tied to every user / one user tied to every object
StarAtObject == G.nO = 1 /\ G.E = (1..G.nU) \X {1}
StarAtUser == G.nU = 1 /\ G.E = {1} \X (1..G.nO)

\* C5: on the star of 1 object and k users the result is slot 1 = C(k,2) and
\* 0 elsewhere; on the star of 1 user and k objects it is slot 0 = C(k,2) and
\* 0 elsewhere.
C5_Stars ==
    /\ (Returned /\ StarAtObject) =>
          subgraphs = [Zeros EXCEPT ![1] = Choose2(G.nU)]
    /\ (Returned /\ StarAtUser) =>
          subgraphs = [Zeros EXCEPT ![0] = Choose2(G.nO)]

C5_Witness == Returned /\ StarAtUser /\ G.nO >= 3 /\ subgraphs[0] = Choose2(G.nO)

SingleSquare == G.nU = 2 /\ G.nO = 2 /\ G.E = (1..2) \X (1..2)

\* C6: on the single 4-cycle the result has slot 4 = 1, slot 0 = 2,
\* slot 1 = 2, slot 5 = 0 and slot 6 = 0.
C6_Square ==
    (Returned /\ SingleSquare) =>
        /\ subgraphs[4] = 1
        /\ subgraphs[0] = 2
        /\ subgraphs[1] = 2
        /\ subgraphs[5] = 0
        /\ subgraphs[6] = 0

C6_Witness == Returned /\ SingleSquare

\* C7: slot 0 of a call on the graph with one more edge is never below
\* slot 0 of the call on the graph before.
C7_Slot0Monotone == (Returned /\ prev0 >= 0) => subgraphs[0] >= prev0

C7_Witness == Returned /\ prev0 > 0 /\ subgraphs[0] > prev0

\* the object nodes still in the graph
RightNodes(Bg) == {n \in Bg.nodes : Bg.attr[n] = "o"}
BothHeld == "pairs_O" \in live /\ "pairs_U" \in live

\* C8 as stated: pairs_O is released and every object node is out of the
\* graph before the first user pair is enumerated and before pairs_U exists;
\* the two matrices are never both held.
C8_PrunedBeforePass ==
    /\ ~BothHeld
    /\ ((pc = "loopO" /\ row # <<>>) \/ "pairs_U" \in live) =>
          ("pairs_O" \notin live /\ RightNodes(B) = {})

\* C8 amended: pairs_O is released before the user-pair pass begins; during
\* the pass each object node is removed right after its neighbours are read,
\* so exactly the objects not yet visited remain; every node is out of the
\* graph before pairs_U exists; the two matrices are never both held.
C8_PrunedDuringPass ==
    /\ ~BothHeld
    /\ pc \in {"loopO", "deriveU", "done"} => "pairs_O" \notin live
    /\ pc = "loopO" => RightNodes(B) = o..(num_U + num_O - 1)
    /\ "pairs_U" \in live => B.nodes = {}

C8_Witness == pc = "loopO" /\ row # <<>> /\ RightNodes(B) # {}

\* C9: every returned slot is >= 0, every co-occurrence entry is at most the
\* smaller of the two degrees, and the summands n_L - (K+K - p) of slot 2,
\* K+K - 2 of slot 3 and K+K - 2p of slots 5 and 6 are >= 0.
C9_NonNegative ==
    /\ Returned => \A s \in 0..7 : subgraphs[s] >= 0
    /\ pc = "releaseO" =>
          \A p \in DOMAIN pairs_O :
             /\ pairs_O[p] <= k_O[p[1]] /\ pairs_O[p] <= k_O[p[2]]
             /\ MSub(matrix_numU, MSub(pairsO_ksum, pairs_O))[p] >= 0
             /\ pairs_O[p] = 1 => pairsO_ksum[p] - 2 >= 0
             /\ MSub(pairsO_ksum, MScale(2, pairs_O))[p] >= 0
    /\ "pairs_U" \in live =>
          \A p \in DOMAIN pairs_U :
             /\ pairs_U[p] <= k_U[p[1]] /\ pairs_U[p] <= k_U[p[2]]
             /\ k_U[p[1]] + k_U[p[2]] - 2 * pairs_U[p] >= 0

\* a pair whose summands are exactly 0: all users tied to both objects
C9_Witness ==
    /\ pc = "releaseO"
    /\ \E p \in DOMAIN pairs_O :
          /\ pairs_O[p] >= 2
          /\ pairsO_ksum[p] = 2 * pairs_O[p]
          /\ matrix_numU[p] = pairs_O[p]

\* the users of object index x in the graph the degrees were computed on
OrigUsers(x) == {i - 1 : i \in UsersOf(x - num_U + 1)}

\* C10: what the object loop reads for an object is its user set in the
\* original graph, of size k_O; the removals of earlier objects change
\* nothing read later; pairs_U holds the original co-occurrence counts; and
\* the graph has no nodes when the call returns.
C10_ReadsOriginal ==
    /\ \A x \in DOMAIN usr :
          usr[x] = OrigUsers(x) /\ Cardinality(usr[x]) = k_O[x]
    /\ (pc = "loopO" /\ o < num_U + num_O) =>
          /\ Neighbors(B, o) = OrigUsers(o)
          /\ Cardinality(Neighbors(B, o)) = k_O[o]
    /\ "pairs_U" \in live =>
          /\ \A p \in DOMAIN pairs_U : p[1] < p[2]
          /\ \A l1, l2 \in 0..(num_U - 1) :
                l1 < l2 => At(pairs_U, <<l1, l2>>) = Q(l1 + 1, l2 + 1)
    /\ Returned => B.nodes = {}

\* two objects read one after the other that share a user
C10_Witness ==
    /\ Returned
    /\ \E x, y \in DOMAIN usr : x < y /\ usr[x] \cap usr[y] # {}

====
